---- MODULE Spec2Model ----
(***************************************************************************)
(* prometheus-pacemaker-exporter: the collector that turns one crm_mon     *)
(* status document into Prometheus metric families, and the HTTP handler   *)
(* that serves it from one thread per request.                             *)
(*                                                                         *)
(* Strings that the code only compares are TLA+ strings.  Resource ids     *)
(* are sequences of characters, because the code searches them for ':'     *)
(* and splits them.  An XML attribute that is absent has the value NoAttr, *)
(* an attribute of an absent element has the value NoElem.                 *)
(***************************************************************************)
EXTENDS Integers, Sequences, FiniteSets, TLC

\* Bounds of the explored documents.
MaxTop == 2
MaxChildren == 2
MaxNodes == 2
MaxRunning == 2

Threads == {1, 2}
NodeNames == {"A", "B"}

NoAttr == "<no attribute>"
NoElem == "<no element>"
NoId == <<NoAttr>>

SeqsUpTo(S, n) == UNION {[1..k -> S] : k \in 0..n}

RECURSIVE Concat(_)
Concat(ss) == IF ss = <<>> THEN <<>> ELSE Head(ss) \o Concat(Tail(ss))

Range(s) == {s[i] : i \in DOMAIN s}

(***************************************************************************)
(* Results of an expression that may raise.                                *)
(***************************************************************************)
Ok(v) == [ok |-> TRUE, v |-> v, err |-> ""]
Raise(e) == [ok |-> FALSE, v |-> 0, err |-> e]

\* Index of the first raising result of a sequence, Len + 1 if none raises.
FirstBad(rs) ==
    IF \E i \in DOMAIN rs : ~rs[i].ok
    THEN CHOOSE i \in DOMAIN rs : ~rs[i].ok /\ \A j \in 1..(i - 1) : rs[j].ok
    ELSE Len(rs) + 1

(***************************************************************************)
(* Scalar coercions.                                                       *)
(***************************************************************************)
\* time.strptime accepts the C-locale ctime format only; the table holds the
\* timestamps of the explored documents and their epoch seconds.
TimeTable ==
    ("Thu Jan  1 00:00:01 1970" :> 1) @@ ("Thu Jan  1 00:00:02 1970" :> 2)

p_time(t) == IF t \in DOMAIN TimeTable THEN Ok(TimeTable[t]) ELSE Raise("ValueError")

p_bool_only_true(b) == IF b = "true" THEN 1 ELSE 0

p_bool(b) == IF b \in {"true", "1"} THEN 1 ELSE 0

IntTable == ("0" :> 0) @@ ("1" :> 1) @@ ("2" :> 2)

int(s) == IF s \in DOMAIN IntTable THEN Ok(IntTable[s]) ELSE Raise("ValueError")

\* float() accepts what int() accepts and more ("1.0").
FloatTable == IntTable @@ ("1.0" :> 1)

float(s) == IF s \in DOMAIN FloatTable THEN Ok(FloatTable[s]) ELSE Raise("ValueError")

Digits == <<"0", "1", "2", "3", "4", "5", "6", "7", "8", "9">>

RECURSIVE str(_)
str(i) == IF i < 10 THEN <<Digits[i + 1]>>
          ELSE str(i \div 10) \o <<Digits[(i % 10) + 1]>>

attrib_get(s) == IF s = NoElem THEN Raise("AttributeError") ELSE Ok(s)

\* elem.attrib[key]: KeyError when the attribute is absent; None.attrib:
\* AttributeError when find() found no element.
attrib(s) ==
    IF s = NoElem THEN Raise("AttributeError")
    ELSE IF s = NoAttr THEN Raise("KeyError")
    ELSE Ok(s)

\* parser(elem.attrib[key])
parse(parser, s) ==
    LET a == attrib(s) IN
    IF ~a.ok THEN a
    ELSE CASE parser = "p_time" -> p_time(s)
           [] parser = "p_bool" -> Ok(p_bool(s))
           [] parser = "int"    -> int(s)
           [] parser = "float"  -> float(s)

(***************************************************************************)
(* Metric families.                                                        *)
(***************************************************************************)
Sample(labels, value) == [labels |-> labels, value |-> value]
Family(name, samples) == [name |-> name, samples |-> samples]
\* GaugeMetricFamily(name, help, value=v)
Gauge(name, v) == Family(name, <<Sample(<<>>, v)>>)

(***************************************************************************)
(* collect(), lines 44-58: the seven cluster-wide gauges, yielded one by   *)
(* one; the first expression that raises ends the generator.               *)
(***************************************************************************)
SummaryTable == <<
    [metric |-> "pacemaker_last_update",          parser |-> "p_time", field |-> "last_update"],
    [metric |-> "pacemaker_last_change",          parser |-> "p_time", field |-> "last_change"],
    [metric |-> "pacemaker_dc_present",           parser |-> "p_bool", field |-> "dc_present"],
    [metric |-> "pacemaker_dc_with_quorum",       parser |-> "p_bool", field |-> "dc_with_quorum"],
    [metric |-> "pacemaker_nodes_configured",     parser |-> "int",    field |-> "nodes_configured"],
    [metric |-> "pacemaker_resources_configured", parser |-> "int",    field |-> "resources_configured"],
    [metric |-> "pacemaker_stonith_enabled",      parser |-> "p_bool", field |-> "stonith_enabled"] >>

\* root.find('summary') is None when the section is absent, and None.find raises.
summary_results(doc) ==
    [i \in DOMAIN SummaryTable |->
        IF ~doc.has_summary THEN Raise("AttributeError")
        ELSE parse(SummaryTable[i].parser, doc.summary[SummaryTable[i].field])]

collect_summary(doc) ==
    LET rs == summary_results(doc)
        k  == FirstBad(rs)
    IN  [ok  |-> k > Len(rs),
         err |-> IF k > Len(rs) THEN "" ELSE rs[k].err,
         out |-> [i \in 1..(k - 1) |-> Gauge(SummaryTable[i].metric, rs[i].v)]]

(***************************************************************************)
(* collect(), lines 60-81: the ten per-node families.                      *)
(***************************************************************************)
node_metrics == <<
    [attrib |-> "id",                parser |-> "int",    metric |-> "pacemaker_node_id"],
    [attrib |-> "online",            parser |-> "p_bool", metric |-> "pacemaker_node_online"],
    [attrib |-> "standby",           parser |-> "p_bool", metric |-> "pacemaker_node_standby"],
    [attrib |-> "maintenance",       parser |-> "p_bool", metric |-> "pacemaker_node_maintenance"],
    [attrib |-> "pending",           parser |-> "p_bool", metric |-> "pacemaker_node_pending"],
    [attrib |-> "unclean",           parser |-> "p_bool", metric |-> "pacemaker_node_unclean"],
    [attrib |-> "shutdown",          parser |-> "p_bool", metric |-> "pacemaker_node_shutdown"],
    [attrib |-> "expected_up",       parser |-> "p_bool", metric |-> "pacemaker_node_expected_up"],
    [attrib |-> "is_dc",             parser |-> "p_bool", metric |-> "pacemaker_node_is_dc"],
    [attrib |-> "resources_running", parser |-> "int",    metric |-> "pacemaker_node_resources_running"] >>

\* findall returns the empty list when the section is absent.
findall(present, elements) == IF present THEN elements ELSE <<>>

node_elements_skip_first(doc) ==
    LET ns == findall(doc.has_nodes, doc.nodes) IN IF ns = <<>> THEN ns ELSE Tail(ns)

\* root.findall('./nodes/node')
node_elements(doc) == findall(doc.has_nodes, doc.nodes)

\* One inner loop: [node.attrib['name']] is evaluated before node.attrib[attrib].
node_results(node) ==
    [j \in DOMAIN node_metrics |->
        LET nm == attrib(node.name) IN
        IF ~nm.ok THEN nm ELSE parse(node_metrics[j].parser, node[node_metrics[j].attrib])]

collect_nodes(doc) ==
    LET ns   == node_elements(doc)
        rs   == [i \in 1..Len(ns) |-> node_results(ns[i])]
        flat == Concat(rs)
        k    == FirstBad(flat)
    IN  IF k <= Len(flat)
        THEN [ok |-> FALSE, err |-> flat[k].err, out |-> <<>>]
        ELSE [ok |-> TRUE, err |-> "",
              out |-> [j \in DOMAIN node_metrics |->
                         Family(node_metrics[j].metric,
                                [i \in 1..Len(ns) |-> Sample(<<ns[i].name>>, rs[i][j].v)])]]

(***************************************************************************)
(* collect(), lines 83-97: node attributes, and the set all_nodes.         *)
(***************************************************************************)
attribute_results(a) ==
    <<attrib(a.name), parse("float", a.value), parse("float", a.expected)>>

attr_node_results(n) ==
    <<attrib(n.name)>>
        \o Concat([k \in 1..Len(n.attributes) |-> attribute_results(n.attributes[k])])

attr_samples(doc, field) ==
    LET ns == findall(doc.has_node_attributes, doc.node_attributes) IN
    Concat([i \in 1..Len(ns) |->
              [k \in 1..Len(ns[i].attributes) |->
                 Sample(<<ns[i].name, ns[i].attributes[k].name>>,
                        float(ns[i].attributes[k][field]).v)]])

collect_attrs(doc) ==
    LET ns   == findall(doc.has_node_attributes, doc.node_attributes)
        flat == Concat([i \in 1..Len(ns) |-> attr_node_results(ns[i])])
        k    == FirstBad(flat)
    IN  IF k <= Len(flat)
        THEN [ok |-> FALSE, err |-> flat[k].err, all_nodes |-> {}, out |-> <<>>]
        ELSE [ok |-> TRUE, err |-> "",
              all_nodes |-> {ns[i].name : i \in 1..Len(ns)},
              out |-> << Family("pacemaker_node_attribute_value", attr_samples(doc, "value")),
                         Family("pacemaker_node_attribute_expected", attr_samples(doc, "expected")) >>]

(***************************************************************************)
(* collect(), lines 105-111: the list resource_elements.                   *)
(***************************************************************************)
entry_elements(e) ==
    CASE e.tag = "resource" ->
           Ok(<<[unique |-> TRUE, idx |-> <<>>, resource |-> e.children[1]]>>)
      [] e.tag = "clone" ->
           IF e.children = <<>> THEN Ok(<<>>)
           ELSE IF ~attrib(e.unique).ok THEN attrib(e.unique)
           ELSE Ok([i \in 1..Len(e.children) |->
                      [unique |-> p_bool(e.unique) = 1, idx |-> str(i - 1),
                       resource |-> e.children[i]]])
      [] OTHER -> Ok(<<>>)

\* Iterating root.find('resources') raises TypeError when it is None.
build_resource_elements(doc) ==
    IF ~doc.has_resources THEN [ok |-> FALSE, err |-> "TypeError", elements |-> <<>>]
    ELSE LET rs == [i \in 1..Len(doc.resources) |-> entry_elements(doc.resources[i])]
             k  == FirstBad(rs)
         IN  IF k <= Len(rs)
             THEN [ok |-> FALSE, err |-> rs[k].err, elements |-> <<>>]
             ELSE [ok |-> TRUE, err |-> "",
                   elements |-> Concat([i \in 1..Len(rs) |-> rs[i].v])]

(***************************************************************************)
(* collect(), lines 124-143: one iteration of the loop over the elements.  *)
(***************************************************************************)
resource_metrics == <<
    [attrib |-> "active",           parser |-> "p_bool", metric |-> "pacemaker_resource_active"],
    [attrib |-> "orphaned",         parser |-> "p_bool", metric |-> "pacemaker_resource_orphaned"],
    [attrib |-> "managed",          parser |-> "p_bool", metric |-> "pacemaker_resource_managed"],
    [attrib |-> "failed",           parser |-> "p_bool", metric |-> "pacemaker_resource_failed"],
    [attrib |-> "failure_ignored",  parser |-> "p_bool", metric |-> "pacemaker_resource_failure_ignored"],
    [attrib |-> "nodes_running_on", parser |-> "int",    metric |-> "pacemaker_resource_nodes_running_on"] >>

has_colon(id) == \E i \in DOMAIN id : id[i] = ":"

\* resource_id.rsplit(':', 1)
rsplit(id) ==
    LET k == CHOOSE i \in DOMAIN id : id[i] = ":" /\ \A j \in (i + 1)..Len(id) : id[j] # ":"
    IN  <<SubSeq(id, 1, k - 1), SubSeq(id, k + 1, Len(id))>>

split_first(id) ==
    LET k == CHOOSE i \in DOMAIN id : id[i] = ":" /\ \A j \in 1..(i - 1) : id[j] # ":"
    IN  <<SubSeq(id, 1, k - 1), SubSeq(id, k + 1, Len(id))>>

labels_split_first(id, idx) == IF has_colon(id) THEN split_first(id) ELSE <<id, idx>>

\* lines 125-130
instance_labels(id, idx) == IF has_colon(id) THEN rsplit(id) ELSE <<id, idx>>

discard(S, n) == Ok(S \ {n})

\* set.remove raises KeyError when the element is not in the set.
remove(S, n) == IF n \in S THEN Ok(S \ {n}) ELSE Raise("KeyError")

\* lines 136-138
RECURSIVE running_rows(_, _, _)
running_rows(names, left, labels) ==
    IF names = <<>> THEN [ok |-> TRUE, err |-> "", rows |-> <<>>, left |-> left]
    ELSE LET n  == Head(names)
             a  == attrib(n)
             rm == remove(left, n)
             bad(e) == [ok |-> FALSE, err |-> e, rows |-> <<>>, left |-> {}]
         IN  IF ~a.ok THEN bad(a.err)
             ELSE IF ~rm.ok THEN bad(rm.err)
             ELSE LET rest == running_rows(Tail(names), rm.v, labels) IN
                  IF ~rest.ok THEN rest
                  ELSE [rest EXCEPT !.rows = <<Sample(labels \o <<n>>, 1)>> \o rest.rows]

\* Iteration order of a set of str: fixed by the process's string-hash seed.
set_order(S, seed) == SelectSeq(seed, LAMBDA n : n \in S)

emit_other_nodes_ignore_flag(unique, omit) == unique

emit_other_nodes_nonunique_too(unique, omit) == ~omit

\* line 141
emit_other_nodes(unique, omit) == unique /\ ~omit

walk_resource(e, all, omit, seed) ==
    LET id  == e.resource.id
        lab == instance_labels(id, e.idx)
        rs  == [j \in DOMAIN resource_metrics |->
                  parse(resource_metrics[j].parser, e.resource[resource_metrics[j].attrib])]
        k   == FirstBad(rs)
        run == running_rows(e.resource.nodes, all, lab)
        rest == set_order(run.left, seed)
        bad(err) == [ok |-> FALSE, err |-> err, rows |-> <<>>, placement |-> <<>>]
    IN  IF id = NoId THEN bad("KeyError")
        ELSE IF k <= Len(rs) THEN bad(rs[k].err)
        ELSE IF ~run.ok THEN bad(run.err)
        ELSE [ok |-> TRUE, err |-> "",
              rows |-> [j \in DOMAIN resource_metrics |-> Sample(lab, rs[j].v)],
              placement |->
                  run.rows \o
                  (IF emit_other_nodes(e.unique, omit)
                   THEN [i \in 1..Len(rest) |-> Sample(lab \o <<rest[i]>>, 0)]
                   ELSE <<>>)]

(***************************************************************************)
(* The status documents crm_mon -X may return.  A document varies one      *)
(* part of a base document at a time.                                      *)
(***************************************************************************)
BoolStrings == {"true", "1", "false", "0", "", "yes"}

BaseSummary ==
    [last_update |-> "Thu Jan  1 00:00:02 1970", last_change |-> "Thu Jan  1 00:00:01 1970",
     dc_present |-> "true", dc_with_quorum |-> "true",
     nodes_configured |-> "2", resources_configured |-> "1", stonith_enabled |-> "false"]

SummaryValues(f) ==
    CASE f \in {"last_update", "last_change"} -> {NoElem, NoAttr, "1970-01-01 00:00:01"}
      [] f \in {"nodes_configured", "resources_configured"} -> {NoElem, NoAttr, "two"}
      [] f = "dc_with_quorum" -> {NoAttr, "false"}
      [] OTHER -> BoolStrings \cup {NoElem, NoAttr}

Summaries ==
    {BaseSummary} \cup
    UNION {{[BaseSummary EXCEPT ![f] = v] : v \in SummaryValues(f)} : f \in DOMAIN BaseSummary}

Node(name, id, online) ==
    [name |-> name, id |-> id, online |-> online, standby |-> "false",
     maintenance |-> "false", pending |-> "false", unclean |-> "false",
     shutdown |-> "false", expected_up |-> "true", is_dc |-> "false",
     resources_running |-> "0"]

NodeVariants ==
    {Node("A", "1", b) : b \in BoolStrings \cup {NoAttr}}
        \cup {Node("B", "2", "true"), Node("B", "2", "false"), Node("B", "x", "true"),
              Node("B", NoAttr, "true"), Node(NoAttr, "1", "true")}

BaseNodes == <<Node("A", "1", "true"), Node("B", "2", "true")>>

AttrNode(name, attributes) == [name |-> name, attributes |-> attributes]

Attribute(name, value, expected) == [name |-> name, value |-> value, expected |-> expected]

BaseAttrs == <<AttrNode("A", <<>>), AttrNode("B", <<>>)>>

\* The node_attributes sections of the placement documents: names only.
KnownNodeLists == SeqsUpTo({AttrNode(n, <<>>) : n \in NodeNames}, MaxNodes)

AttrVariants ==
    {<<AttrNode("A", <<Attribute("ping", v, e)>>), AttrNode("B", <<>>)>> :
        v \in {"1", "1.0", "x", NoAttr}, e \in {"2", "x"}}
        \cup {<<AttrNode("A", <<Attribute(NoAttr, "1", "1")>>)>>,
              <<AttrNode("A", <<>>), AttrNode(NoAttr, <<>>)>>}

Resource(id, nodes, active, nodes_running_on) ==
    [id |-> id, active |-> active, orphaned |-> "false", managed |-> "true",
     failed |-> "false", failure_ignored |-> "false",
     nodes_running_on |-> nodes_running_on, nodes |-> nodes]

Bare(r) == [tag |-> "resource", unique |-> NoAttr, children |-> <<r>>]
Clone(unique, rs) == [tag |-> "clone", unique |-> unique, children |-> rs]
Group(rs) == [tag |-> "group", unique |-> NoAttr, children |-> rs]

Ids == {<<"r">>, <<"r", ":", "0">>, <<"r", ":", "1">>, <<"r", ":", "0", ":", "1">>}

Idle(id) == Resource(id, <<>>, "false", "0")

\* One clone, alone or next to one bare resource.
CloneDocs ==
    LET clones == {Clone("true", cs) : cs \in SeqsUpTo({Idle(id) : id \in Ids}, MaxChildren)}
        bares  == {Bare(Idle(id)) : id \in Ids}
    IN  {<<c>> : c \in clones}
            \cup {<<b, c>> : b \in bares, c \in clones}
            \cup {<<c, b>> : b \in bares, c \in clones}

\* Bare resources, groups and one-child clones side by side.
TopDocs ==
    SeqsUpTo({Bare(Idle(id)) : id \in Ids}
                 \cup {Group(<<Idle(<<"r">>)>>)}
                 \cup {Clone("false", <<Idle(<<"r">>)>>), Clone("true", <<Idle(<<"r", ":", "1">>)>>)},
             MaxTop)

RunningLists == SeqsUpTo(NodeNames \cup {NoAttr}, MaxRunning)

PlacementEntries ==
    UNION {{Bare(Resource(<<"r">>, ns, "true", "1"))}
               \cup {Clone(u, <<Resource(<<"r">>, ns, "true", "1")>>) :
                        u \in {"true", "1", "false", NoAttr}}
           : ns \in RunningLists}

ResourceVariants ==
    {<<Bare(Resource(<<"r">>, <<>>, b, "0"))>> : b \in BoolStrings \cup {NoAttr}}
        \cup {<<Bare(Resource(<<"r">>, <<>>, "true", n))>> : n \in {"x", NoAttr}}
        \cup {<<Bare(Resource(NoId, <<>>, "true", "0"))>>,
              <<Clone(NoAttr, <<>>)>>,
              <<Bare(Resource(<<"r">>, <<"A">>, "true", "1")),
                Clone("false", <<Resource(<<"s">>, <<"B">>, "true", "1"),
                                 Resource(<<"s">>, <<>>, "false", "0")>>)>>}

BaseResources == <<Bare(Resource(<<"r">>, <<"A">>, "true", "1"))>>

\* The same names in the nodes and node_attributes sections, nothing running.
NameLists == SeqsUpTo(NodeNames, MaxNodes)

BaseDoc ==
    [xml |-> "ok",
     has_summary |-> TRUE, summary |-> BaseSummary,
     has_nodes |-> TRUE, nodes |-> BaseNodes,
     has_node_attributes |-> TRUE, node_attributes |-> BaseAttrs,
     has_resources |-> TRUE, resources |-> BaseResources]

\* crm_mon exits non-zero; crm_mon prints something that is not XML.
XmlDocs == {BaseDoc, [BaseDoc EXCEPT !.xml = "failed"], [BaseDoc EXCEPT !.xml = "garbage"]}

SectionDocs ==
    {[BaseDoc EXCEPT !.has_summary = FALSE], [BaseDoc EXCEPT !.has_nodes = FALSE],
     [BaseDoc EXCEPT !.has_resources = FALSE],
     [BaseDoc EXCEPT !.has_node_attributes = FALSE],
     [BaseDoc EXCEPT !.has_node_attributes = FALSE, !.resources = <<Bare(Idle(<<"r">>))>>]}

Docs ==
    XmlDocs \cup SectionDocs
        \cup {[BaseDoc EXCEPT !.summary = s] : s \in Summaries}
        \cup {[BaseDoc EXCEPT !.nodes = ns] : ns \in SeqsUpTo(NodeVariants, MaxNodes)}
        \cup {[BaseDoc EXCEPT !.node_attributes = as] : as \in AttrVariants}
        \cup {[BaseDoc EXCEPT !.nodes = [i \in DOMAIN ns |-> Node(ns[i], "1", "true")],
                              !.node_attributes = [i \in DOMAIN ns |-> AttrNode(ns[i], <<>>)],
                              !.resources = <<Bare(Idle(<<"r">>))>>] : ns \in NameLists}
        \cup {[BaseDoc EXCEPT !.node_attributes = as, !.resources = <<e>>] :
                 as \in KnownNodeLists, e \in PlacementEntries}
        \cup {[BaseDoc EXCEPT !.resources = rs] :
                 rs \in CloneDocs \cup TopDocs \cup ResourceVariants}

\* The documents of the runs with two requests in flight.
DocsSmall ==
    {BaseDoc,
     [BaseDoc EXCEPT !.xml = "failed"],
     [BaseDoc EXCEPT !.summary.last_change = NoElem],
     [BaseDoc EXCEPT !.nodes = <<Node("A", "1", NoAttr)>>],
     [BaseDoc EXCEPT !.resources = <<Bare(Idle(<<"r">>))>>],
     [BaseDoc EXCEPT !.resources = <<Bare(Resource(<<"r">>, <<"B", "B">>, "true", "1"))>>],
     [BaseDoc EXCEPT !.resources =
         <<Clone("true", <<Resource(<<"s">>, <<"B">>, "true", "1"), Idle(<<"s">>)>>)>>]}

HtmlOutputs == {"ok", "failed", "no blank line"}

Paths == {"/", "/xml", "/metrics", "/favicon.ico"}

\* The orders in which a process may iterate a set of node names.
HashSeeds == {<<"A", "B">>, <<"B", "A">>}

(***************************************************************************)
(* State.  args.omit_other_nodes and the hash seed belong to the process;  *)
(* everything else belongs to the handler thread of one request.           *)
(***************************************************************************)
VARIABLES
    omit_other_nodes,   \* args.omit_other_nodes, read-only after start
    hashseed,           \* iteration order of sets of str in this process
    pc,                 \* where each handler thread is
    request,            \* the request of the thread and what crm_mon returns to it
    out,                \* families the generator has yielded so far
    all_nodes,          \* the local set all_nodes
    resource_elements,  \* the local list resource_elements
    walked,             \* elements of resource_elements already walked
    families,           \* the resource families under construction
    raised,             \* text of the exception that is propagating
    resp                \* the response sent

vars == <<omit_other_nodes, hashseed, pc, request, out, all_nodes,
          resource_elements, walked, families, raised, resp>>

NoRequest == [path |-> "", doc |-> BaseDoc, html |-> "ok"]
NoResponse == [status |-> 0, kind |-> "", body |-> <<>>, text |-> ""]
NoFamilies == [metrics |-> [j \in DOMAIN resource_metrics |-> <<>>], resource_node |-> <<>>]

\* BaseHTTPRequestHandler.send_error: status line and the error text, nothing else.
send_error(code, text) == [status |-> code, kind |-> "error", body |-> <<>>, text |-> text]

\* send_response(200) followed by the payload.
send_ok(kind, body) == [status |-> 200, kind |-> kind, body |-> body, text |-> ""]

family_shared(r) == 1

\* The family objects a call of collect() appends to are the ones it created.
family_of(r) == r

Init ==
    /\ omit_other_nodes \in BOOLEAN
    /\ hashseed \in HashSeeds
    /\ pc = [r \in Threads |-> "idle"]
    /\ request = [r \in Threads |-> NoRequest]
    /\ out = [r \in Threads |-> <<>>]
    /\ all_nodes = [r \in Threads |-> {}]
    /\ resource_elements = [r \in Threads |-> <<>>]
    /\ walked = [r \in Threads |-> 0]
    /\ families = [r \in Threads |-> NoFamilies]
    /\ raised = [r \in Threads |-> ""]
    /\ resp = [r \in Threads |-> NoResponse]

Requests(D) ==
    {[path |-> "/metrics", doc |-> d, html |-> "ok"] : d \in D}
        \cup {[path |-> "/xml", doc |-> d, html |-> "ok"] : d \in XmlDocs \cap D}
        \cup {[path |-> "/", doc |-> BaseDoc, html |-> h] : h \in HtmlOutputs}
        \cup {[path |-> "/favicon.ico", doc |-> BaseDoc, html |-> "ok"]}

dispatch(path) ==
    CASE path = "/" -> "send_html"
      [] path = "/xml" -> "send_xml"
      [] path = "/metrics" -> "get_xml"
      [] OTHER -> "done"

\* A request arrives and gets a thread of its own; do_GET picks the route.
Accept(r, D) ==
    /\ pc[r] = "idle"
    /\ \E q \in Requests(D) :
        /\ request' = [request EXCEPT ![r] = q]
        /\ pc' = [pc EXCEPT ![r] = dispatch(q.path)]
        /\ resp' = [resp EXCEPT ![r] =
                      IF dispatch(q.path) = "done" THEN send_error(404, "") ELSE NoResponse]
    /\ UNCHANGED <<omit_other_nodes, hashseed, out, all_nodes, resource_elements,
                   walked, families, raised>>

\* The thread of a finished request ends, and its locals with it.
Close(r) ==
    /\ pc[r] = "done"
    /\ pc' = [pc EXCEPT ![r] = "idle"]
    /\ request' = [request EXCEPT ![r] = NoRequest]
    /\ out' = [out EXCEPT ![r] = <<>>]
    /\ all_nodes' = [all_nodes EXCEPT ![r] = {}]
    /\ resource_elements' = [resource_elements EXCEPT ![r] = <<>>]
    /\ walked' = [walked EXCEPT ![r] = 0]
    /\ families' = [families EXCEPT ![family_of(r)] = NoFamilies]
    /\ raised' = [raised EXCEPT ![r] = ""]
    /\ resp' = [resp EXCEPT ![r] = NoResponse]
    /\ UNCHANGED <<omit_other_nodes, hashseed>>

Throw(r, e) ==
    /\ pc' = [pc EXCEPT ![r] = "raised"]
    /\ raised' = [raised EXCEPT ![r] = e]

SendHtml(r) ==
    /\ pc[r] = "send_html"
    /\ IF request[r].html = "failed" THEN Throw(r, "CalledProcessError") /\ UNCHANGED resp
       ELSE IF request[r].html = "no blank line" THEN Throw(r, "IndexError") /\ UNCHANGED resp
       ELSE /\ pc' = [pc EXCEPT ![r] = "done"]
            /\ resp' = [resp EXCEPT ![r] = send_ok("html", <<>>)]
            /\ UNCHANGED raised
    /\ UNCHANGED <<omit_other_nodes, hashseed, request, out, all_nodes,
                   resource_elements, walked, families>>

SendXml(r) ==
    /\ pc[r] = "send_xml"
    /\ IF request[r].doc.xml = "failed" THEN Throw(r, "CalledProcessError") /\ UNCHANGED resp
       ELSE /\ pc' = [pc EXCEPT ![r] = "done"]
            /\ resp' = [resp EXCEPT ![r] = send_ok("xml", <<>>)]
            /\ UNCHANGED raised
    /\ UNCHANGED <<omit_other_nodes, hashseed, request, out, all_nodes,
                   resource_elements, walked, families>>

\* collect(), lines 41-42
GetXml(r) ==
    /\ pc[r] = "get_xml"
    /\ IF request[r].doc.xml = "failed" THEN Throw(r, "CalledProcessError")
       ELSE IF request[r].doc.xml = "garbage" THEN Throw(r, "ParseError")
       ELSE pc' = [pc EXCEPT ![r] = "summary"] /\ UNCHANGED raised
    /\ UNCHANGED <<omit_other_nodes, hashseed, request, out, all_nodes,
                   resource_elements, walked, families, resp>>

CollectSummary(r) ==
    /\ pc[r] = "summary"
    /\ LET c == collect_summary(request[r].doc) IN
        /\ out' = [out EXCEPT ![r] = c.out]
        /\ IF c.ok THEN pc' = [pc EXCEPT ![r] = "nodes"] /\ UNCHANGED raised
           ELSE Throw(r, c.err)
    /\ UNCHANGED <<omit_other_nodes, hashseed, request, all_nodes,
                   resource_elements, walked, families, resp>>

CollectNodes(r) ==
    /\ pc[r] = "nodes"
    /\ LET c == collect_nodes(request[r].doc) IN
        /\ out' = [out EXCEPT ![r] = @ \o c.out]
        /\ IF c.ok THEN pc' = [pc EXCEPT ![r] = "attrs"] /\ UNCHANGED raised
           ELSE Throw(r, c.err)
    /\ UNCHANGED <<omit_other_nodes, hashseed, request, all_nodes,
                   resource_elements, walked, families, resp>>

CollectAttrs(r) ==
    /\ pc[r] = "attrs"
    /\ LET c == collect_attrs(request[r].doc) IN
        /\ out' = [out EXCEPT ![r] = @ \o c.out]
        /\ all_nodes' = [all_nodes EXCEPT ![r] = c.all_nodes]
        /\ IF c.ok THEN pc' = [pc EXCEPT ![r] = "resources"] /\ UNCHANGED raised
           ELSE Throw(r, c.err)
    /\ UNCHANGED <<omit_other_nodes, hashseed, request,
                   resource_elements, walked, families, resp>>

\* lines 99-122: the resource families are created, the elements listed.
BuildResources(r) ==
    /\ pc[r] = "resources"
    /\ LET b == build_resource_elements(request[r].doc) IN
        /\ resource_elements' = [resource_elements EXCEPT ![r] = b.elements]
        /\ IF b.ok THEN pc' = [pc EXCEPT ![r] = "walk"] /\ UNCHANGED raised
           ELSE Throw(r, b.err)
    /\ families' = [families EXCEPT ![family_of(r)] = NoFamilies]
    /\ walked' = [walked EXCEPT ![r] = 0]
    /\ UNCHANGED <<omit_other_nodes, hashseed, request, out, all_nodes, resp>>

\* lines 124-143, one element
WalkResource(r) ==
    /\ pc[r] = "walk"
    /\ walked[r] < Len(resource_elements[r])
    /\ LET w == walk_resource(resource_elements[r][walked[r] + 1], all_nodes[r],
                              omit_other_nodes, hashseed)
           f == families[family_of(r)]
       IN  IF w.ok
           THEN /\ families' = [families EXCEPT ![family_of(r)] =
                      [metrics |-> [j \in DOMAIN resource_metrics |->
                                      Append(f.metrics[j], w.rows[j])],
                       resource_node |-> f.resource_node \o w.placement]]
                /\ walked' = [walked EXCEPT ![r] = @ + 1]
                /\ UNCHANGED <<pc, raised>>
           ELSE Throw(r, w.err) /\ UNCHANGED <<families, walked>>
    /\ UNCHANGED <<omit_other_nodes, hashseed, request, out, all_nodes,
                   resource_elements, resp>>

\* lines 145-148
YieldResources(r) ==
    /\ pc[r] = "walk"
    /\ walked[r] = Len(resource_elements[r])
    /\ LET f == families[family_of(r)] IN
       out' = [out EXCEPT ![r] =
                 @ \o [j \in DOMAIN resource_metrics |->
                         Family(resource_metrics[j].metric, f.metrics[j])]
                   \o <<Family("pacemaker_resource_node", f.resource_node)>>]
    /\ pc' = [pc EXCEPT ![r] = "render"]
    /\ UNCHANGED <<omit_other_nodes, hashseed, request, all_nodes,
                   resource_elements, walked, families, raised, resp>>

\* MetricsHandler.do_GET: the output is written once the generator is exhausted.
Render(r) ==
    /\ pc[r] = "render"
    /\ resp' = [resp EXCEPT ![r] = send_ok("metrics", out[r])]
    /\ pc' = [pc EXCEPT ![r] = "done"]
    /\ UNCHANGED <<omit_other_nodes, hashseed, request, out, all_nodes,
                   resource_elements, walked, families, raised>>

\* do_GET, lines 162-163
Except(r) ==
    /\ pc[r] = "raised"
    /\ resp' = [resp EXCEPT ![r] = send_error(500, raised[r])]
    /\ pc' = [pc EXCEPT ![r] = "done"]
    /\ UNCHANGED <<omit_other_nodes, hashseed, request, out, all_nodes,
                   resource_elements, walked, families, raised>>

\* The exporter is started again with the same arguments: a new hash seed.
Restart ==
    /\ \A r \in Threads : pc[r] \in {"idle", "done"}
    /\ hashseed' \in HashSeeds \ {hashseed}
    /\ UNCHANGED <<omit_other_nodes, pc, request, out, all_nodes,
                   resource_elements, walked, families, raised, resp>>

Handle(r) ==
    \/ SendHtml(r)
    \/ SendXml(r)
    \/ GetXml(r)
    \/ CollectSummary(r)
    \/ CollectNodes(r)
    \/ CollectAttrs(r)
    \/ BuildResources(r)
    \/ WalkResource(r)
    \/ YieldResources(r)
    \/ Render(r)
    \/ Except(r)
    \/ Close(r)

\* One request at a time, over all the documents.
Next ==
    \/ Accept(1, Docs)
    \/ Handle(1)
    \/ Restart

Spec == Init /\ [][Next]_vars

\* Two handler threads, over a few documents.
NextThreads ==
    \/ \E r \in Threads : Accept(r, DocsSmall)
    \/ \E r \in Threads : Handle(r)
    \/ Restart

SpecThreads == Init /\ [][NextThreads]_vars

(***************************************************************************)
(* Vocabulary of the properties, read off the document, not off the        *)
(* collector.                                                              *)
(***************************************************************************)
Done(r) == pc[r] = "done" /\ request[r].path = "/metrics"

FamilyNamed(body, name) == body[CHOOSE i \in DOMAIN body : body[i].name = name]

Distinct(seq) == \A i, j \in DOMAIN seq : i # j => seq[i] # seq[j]

BoolValue(s) == IF s = "true" \/ s = "1" THEN 1 ELSE 0

SummaryBools == {"dc_present", "dc_with_quorum", "stonith_enabled"}
NodeBools == {"online", "standby", "maintenance", "pending", "unclean", "shutdown",
              "expected_up", "is_dc"}
ResourceBools == {"active", "orphaned", "managed", "failed", "failure_ignored"}

\* The resource elements the collector looks at: bare ones and clone children.
WalkedResources(doc) ==
    UNION {Range(e.children) : e \in {x \in Range(doc.resources) : x.tag \in {"resource", "clone"}}}

\* The names of the node elements of the node_attributes section.
KnownNodes(doc) ==
    IF doc.has_node_attributes THEN {n.name : n \in Range(doc.node_attributes)} ELSE {}

\* A boolean attribute the collector reads is absent.
MissingBool(doc) ==
    \/ doc.has_summary /\ \E f \in SummaryBools : doc.summary[f] = NoAttr
    \/ doc.has_nodes /\ \E n \in Range(doc.nodes) : \E a \in NodeBools : n[a] = NoAttr
    \/ doc.has_resources /\ \E x \in WalkedResources(doc) : \E a \in ResourceBools : x[a] = NoAttr

\* A required section or element is absent, another required attribute is
\* missing, or a timestamp or number does not parse.
OtherDefect(doc) ==
    \/ doc.xml # "ok"
    \/ ~doc.has_summary
    \/ \E f \in DOMAIN doc.summary : doc.summary[f] = NoElem
    \/ \E f \in {"last_update", "last_change"} : doc.summary[f] \notin DOMAIN TimeTable
    \/ \E f \in {"nodes_configured", "resources_configured"} :
          doc.summary[f] \notin DOMAIN IntTable
    \/ doc.has_nodes /\ \E n \in Range(doc.nodes) :
          \/ n.name = NoAttr
          \/ n.id \notin DOMAIN IntTable
          \/ n.resources_running \notin DOMAIN IntTable
    \/ doc.has_node_attributes /\ \E n \in Range(doc.node_attributes) :
          \/ n.name = NoAttr
          \/ \E a \in Range(n.attributes) :
                \/ a.name = NoAttr
                \/ a.value \notin DOMAIN FloatTable
                \/ a.expected \notin DOMAIN FloatTable
    \/ ~doc.has_resources
    \/ doc.has_resources /\
          \/ \E e \in Range(doc.resources) :
                e.tag = "clone" /\ e.children # <<>> /\ e.unique = NoAttr
          \/ \E x \in WalkedResources(doc) :
                \/ x.id = NoId
                \/ x.nodes_running_on \notin DOMAIN IntTable
                \/ NoAttr \in Range(x.nodes)

\* A resource reports a node twice, or a node that node_attributes does not list.
Inconsistent(doc) ==
    doc.has_resources /\ \E x \in WalkedResources(doc) :
        ~Distinct(x.nodes) \/ ~(Range(x.nodes) \subseteq KnownNodes(doc))

CatalogSize == Len(SummaryTable) + Len(node_metrics) + 2 + Len(resource_metrics) + 1

(***************************************************************************)
(* C1.  Collection is all-or-nothing.                                      *)
(***************************************************************************)
\* C1 as claimed: whenever an attribute is missing, a scalar is unparsable or a
\* section is absent, /metrics answers 500 and delivers no metric family.
C1_AnyAbsenceFails ==
    \A r \in Threads :
        Done(r) /\ ( \/ MissingBool(request[r].doc) \/ OtherDefect(request[r].doc)
                     \/ ~request[r].doc.has_nodes \/ ~request[r].doc.has_node_attributes )
            => resp[r].status = 500 /\ resp[r].body = <<>>

\* C1 amended: /metrics answers 500 exactly when the command fails, the summary
\* section, one of its elements or the resources section is absent, an
\* attribute the collector reads is missing, a scalar is unparsable or a
\* resource's nodes do not match node_attributes; a 500 never carries a metric
\* family, although some were already yielded, and a 200 carries the whole
\* catalog.  An absent nodes or node_attributes section alone reads as empty.
C1_AllOrNothing ==
    \A r \in Threads :
        Done(r) =>
            LET d == request[r].doc IN
            /\ resp[r].status \in {200, 500}
            /\ resp[r].status = 500 <=> (MissingBool(d) \/ OtherDefect(d) \/ Inconsistent(d))
            /\ resp[r].status = 500 => resp[r].body = <<>> /\ resp[r].text = raised[r]
            /\ resp[r].status = 200 => Len(resp[r].body) = CatalogSize

\* A pass that raised after yielding families, answered without any of them.
C1_Witness ==
    \E r \in Threads :
        /\ Done(r) /\ resp[r].status = 500 /\ resp[r].body = <<>>
        /\ Len(out[r]) = 1
        /\ request[r].doc.summary.last_change = NoElem

(***************************************************************************)
(* Placement samples of one element: what one step of the walk appends to  *)
(* pacemaker_resource_node.                                                *)
(***************************************************************************)
WalkStep(r) == pc[r] = "walk" /\ walked'[r] = walked[r] + 1

Element(r) == resource_elements[r][walked[r] + 1]

Block(r) ==
    SubSeq(families'[r].resource_node,
           Len(families[r].resource_node) + 1, Len(families'[r].resource_node))

NodesWith(b, v) == {b[i].labels[3] : i \in {k \in DOMAIN b : b[k].value = v}}

Running(e) == Range(e.resource.nodes)

\* C2.  With the default configuration, walking a unique instance appends
\* exactly one placement sample per known node, 1 where it runs and 0 elsewhere;
\* walking a non-unique clone instance appends one sample of value 1 per node it
\* runs on and nothing else.
C2_PlacementMatrix ==
    [][\A r \in Threads :
         WalkStep(r) /\ ~omit_other_nodes =>
            LET b == Block(r)
                e == Element(r)
                known == KnownNodes(request[r].doc)
            IN  IF e.unique
                THEN /\ Len(b) = Cardinality(known)
                     /\ \A n \in known : \E i \in DOMAIN b :
                           /\ b[i].labels[3] = n
                           /\ b[i].value = IF n \in Running(e) THEN 1 ELSE 0
                ELSE /\ Len(b) = Cardinality(Running(e))
                     /\ NodesWith(b, 1) = Running(e)
                     /\ NodesWith(b, 0) = {}]_vars

\* A unique instance running on A alone, nodes A and B known: two samples.
C2_Witness ==
    \E r \in Threads :
        /\ pc[r] = "walk" /\ walked[r] = 1 /\ ~omit_other_nodes
        /\ resource_elements[r][1].unique
        /\ resource_elements[r][1].resource.nodes = <<"A">>
        /\ all_nodes[r] = {"A", "B"}
        /\ NodesWith(families[r].resource_node, 1) = {"A"}
        /\ NodesWith(families[r].resource_node, 0) = {"B"}

\* C3 as claimed: non-unique instances get no 0-valued sample by default and get
\* one for every other known node once the flag is set; the flag leaves the
\* 0-valued samples of unique instances in place.
C3_OptOutMaterializesNonUnique ==
    [][\A r \in Threads :
         WalkStep(r) =>
            LET b == Block(r)
                e == Element(r)
                others == KnownNodes(request[r].doc) \ Running(e)
            IN  /\ ~e.unique /\ ~omit_other_nodes => NodesWith(b, 0) = {}
                /\ ~e.unique /\ omit_other_nodes => NodesWith(b, 0) = others
                /\ e.unique => NodesWith(b, 0) = others]_vars

\* C3 amended: a non-unique instance never gets a 0-valued sample, whatever the
\* flag; a unique instance gets one for every other known node unless the flag
\* --omit-other-nodes (off by default) is set, and none when it is set.
C3_FlagGovernsUnique ==
    [][\A r \in Threads :
         WalkStep(r) =>
            LET b == Block(r)
                e == Element(r)
                others == KnownNodes(request[r].doc) \ Running(e)
            IN  /\ NodesWith(b, 0) = IF e.unique /\ ~omit_other_nodes THEN others ELSE {}
                /\ NodesWith(b, 1) = Running(e)
                /\ \A i \in DOMAIN b : b[i].value \in {0, 1}]_vars

\* The flag is set: a unique instance running on A alone gets no sample for B.
C3_Witness ==
    \E r \in Threads :
        /\ pc[r] = "walk" /\ walked[r] = 1 /\ omit_other_nodes
        /\ resource_elements[r][1].unique
        /\ resource_elements[r][1].resource.nodes = <<"A">>
        /\ all_nodes[r] = {"A", "B"}
        /\ Len(families[r].resource_node) = 1

\* C10.  The known nodes are the names of the node_attributes section.  The
\* samples appended for an instance name each node once, the nodes with 1 are
\* the nodes it runs on and are known, the nodes with 0 are disjoint from them
\* and, when zeros are emitted, complete them to the known set; an instance that
\* reports an unknown node, or a node twice, makes the walk raise and the
\* request end in 500.
C10_KnownNodes ==
    [][\A r \in Threads :
         LET d == request[r].doc
             known == KnownNodes(d)
         IN  /\ WalkStep(r) =>
                   LET b == Block(r)
                       e == Element(r)
                   IN  /\ Distinct([i \in DOMAIN b |-> b[i].labels[3]])
                       /\ NodesWith(b, 1) = Running(e)
                       /\ NodesWith(b, 1) \subseteq known
                       /\ NodesWith(b, 0) \cap NodesWith(b, 1) = {}
                       /\ NodesWith(b, 0) \subseteq known
                       /\ e.unique /\ ~omit_other_nodes =>
                             NodesWith(b, 0) \cup NodesWith(b, 1) = known
             /\ ( /\ pc[r] = "walk" /\ walked[r] < Len(resource_elements[r])
                  /\ <<pc[r], walked[r]>> # <<pc'[r], walked'[r]>>
                  /\ \/ ~Distinct(Element(r).resource.nodes)
                     \/ ~(Running(Element(r)) \subseteq known) )
                   => pc'[r] = "raised"
             /\ pc[r] # "done" /\ pc'[r] = "done" /\ request'[r].path = "/metrics"
                  /\ Inconsistent(request'[r].doc)
                   => resp'[r].status = 500 /\ resp'[r].body = <<>>]_vars

\* The resource runs on B, which the nodes section lists and node_attributes
\* does not: the request failed.
C10_Witness ==
    \E r \in Threads :
        /\ Done(r) /\ resp[r].status = 500 /\ raised[r] = "KeyError"
        /\ all_nodes[r] = {"A"}
        /\ "B" \in {n.name : n \in Range(request[r].doc.nodes)}
        /\ walked[r] = 0 /\ Len(resource_elements[r]) = 1
        /\ resource_elements[r][1].resource.nodes = <<"B">>

(***************************************************************************)
(* Instance labels.                                                        *)
(***************************************************************************)
InstanceLabels(r) ==
    LET f == FamilyNamed(resp[r].body, "pacemaker_resource_active")
    IN  [i \in DOMAIN f.samples |-> f.samples[i].labels]

EntryCount(e) ==
    IF e.tag = "resource" THEN 1 ELSE IF e.tag = "clone" THEN Len(e.children) ELSE 0

RECURSIVE Offset(_, _)
Offset(rs, k) == IF k = 1 THEN 0 ELSE Offset(rs, k - 1) + EntryCount(rs[k - 1])

HasColon(id) == ":" \in Range(id)

\* lab is id cut at its last colon.
CutAtLastColon(lab, id) == lab[1] \o <<":">> \o lab[2] = id /\ ~HasColon(lab[2])

\* C4 as claimed: in the answer to one scrape no two resource instances carry
\* the same (id, instance) labels.
C4_DistinctInstanceLabels ==
    \A r \in Threads : Done(r) /\ resp[r].status = 200 => Distinct(InstanceLabels(r))

\* C5 as claimed: a bare resource gets the empty instance label; the children of
\* a clone whose ids all have a colon get the suffix after the last colon, and
\* the part before it as id; the children of a clone without any colon get
\* "0".."N-1" in document order.
C5_BareHasEmptyInstance ==
    \A r \in Threads :
        Done(r) /\ resp[r].status = 200 =>
            LET rs == request[r].doc.resources
                lab == InstanceLabels(r)
            IN  /\ Len(lab) = Offset(rs, Len(rs) + 1)
                /\ \A k \in DOMAIN rs :
                     LET ids == [i \in DOMAIN rs[k].children |-> rs[k].children[i].id]
                         at(i) == lab[Offset(rs, k) + i]
                     IN  /\ rs[k].tag = "resource" => at(1)[2] = <<>>
                         /\ rs[k].tag = "clone" /\ (\A i \in DOMAIN ids : HasColon(ids[i])) =>
                               \A i \in DOMAIN ids : CutAtLastColon(at(i), ids[i])
                         /\ rs[k].tag = "clone" /\ (\A i \in DOMAIN ids : ~HasColon(ids[i])) =>
                               \A i \in DOMAIN ids : at(i) = <<ids[i], <<Digits[i]>>>>

\* C5 amended: every element whose id has a colon, bare or clone child, gets the
\* suffix after the last colon as instance and the part before it as id; a bare
\* resource without a colon gets the empty instance label; a clone child without
\* a colon gets its zero-based position among the clone's children, in
\* document order.
C5_InstanceLabelRule ==
    \A r \in Threads :
        Done(r) /\ resp[r].status = 200 =>
            LET rs == request[r].doc.resources
                lab == InstanceLabels(r)
            IN  /\ Len(lab) = Offset(rs, Len(rs) + 1)
                /\ \A k \in DOMAIN rs : \A i \in 1..EntryCount(rs[k]) :
                     LET id == rs[k].children[i].id
                         at == lab[Offset(rs, k) + i]
                     IN  IF HasColon(id) THEN CutAtLastColon(at, id)
                         ELSE IF rs[k].tag = "resource" THEN at = <<id, <<>>>>
                         ELSE at = <<id, <<Digits[i]>>>>

\* A bare "r:0" next to a clone of two children "r": the labels (r, 0), (r, 0), (r, 1).
C5_Witness ==
    \E r \in Threads :
        /\ Done(r) /\ resp[r].status = 200
        /\ request[r].doc.resources =
              <<Bare(Idle(<<"r", ":", "0">>)), Clone("true", <<Idle(<<"r">>), Idle(<<"r">>)>>)>>
        /\ InstanceLabels(r) = << <<<<"r">>, <<"0">>>>, <<<<"r">>, <<"0">>>>, <<<<"r">>, <<"1">>>> >>

(***************************************************************************)
(* Per-node samples.                                                       *)
(***************************************************************************)
NodeSectionNames(doc) == [i \in DOMAIN findall(doc.has_nodes, doc.nodes) |-> doc.nodes[i].name]

\* Every node name of the document, wherever it stands.
NamesPresent(doc) ==
    Range(NodeSectionNames(doc)) \cup KnownNodes(doc)
        \cup UNION {Range(x.nodes) : x \in WalkedResources(doc)}

\* The nodes section lists every node of the document, once.
WellFormed(doc) ==
    /\ Distinct(NodeSectionNames(doc))
    /\ NamesPresent(doc) = Range(NodeSectionNames(doc))

C7_SameDocumentSameOutput ==
    \A r, t \in Threads :
        Done(r) /\ Done(t) /\ request[r].doc = request[t].doc => resp[r] = resp[t]

(***************************************************************************)
(* Boolean coercion.                                                       *)
(***************************************************************************)
\* The value of every boolean sample of the answer is the coercion of its
\* attribute.
BoolSamplesCoerced(r) ==
    LET d == request[r].doc
        body == resp[r].body
    IN  /\ \A i \in DOMAIN SummaryTable :
              SummaryTable[i].field \in SummaryBools =>
                 FamilyNamed(body, SummaryTable[i].metric).samples[1].value
                    = BoolValue(d.summary[SummaryTable[i].field])
        /\ \A j \in DOMAIN node_metrics :
              node_metrics[j].attrib \in NodeBools =>
                 \A i \in DOMAIN findall(d.has_nodes, d.nodes) :
                    FamilyNamed(body, node_metrics[j].metric).samples[i].value
                       = BoolValue(d.nodes[i][node_metrics[j].attrib])
        /\ \A j \in DOMAIN resource_metrics :
              resource_metrics[j].attrib \in ResourceBools =>
                 \A k \in DOMAIN resource_elements[r] :
                    FamilyNamed(body, resource_metrics[j].metric).samples[k].value
                       = BoolValue(resource_elements[r][k].resource[resource_metrics[j].attrib])

\* C8 as claimed: "true" and "1" give a sample of 1, anything else, an absent
\* attribute included, gives a sample of 0.
C8_AbsentIsZero ==
    \A r \in Threads :
        Done(r) /\ ~OtherDefect(request[r].doc) /\ ~Inconsistent(request[r].doc) =>
            resp[r].status = 200 /\ BoolSamplesCoerced(r)

\* C8 amended: "true" and "1" give a sample of 1 and every other string, the
\* empty one included, a sample of 0; an absent boolean attribute gives no
\* sample: the request ends in 500.
C8_BooleanCoercion ==
    \A r \in Threads :
        Done(r) =>
            /\ MissingBool(request[r].doc) => resp[r].status = 500 /\ resp[r].body = <<>>
            /\ resp[r].status = 200 => BoolSamplesCoerced(r)
            /\ ( /\ ~MissingBool(request[r].doc) /\ ~OtherDefect(request[r].doc)
                 /\ ~Inconsistent(request[r].doc) ) => resp[r].status = 200

\* online="1" gave 1 for node A, online="false" gave 0 for node B.
C8_Witness ==
    \E r \in Threads :
        /\ Done(r) /\ resp[r].status = 200
        /\ Len(request[r].doc.nodes) = 2
        /\ request[r].doc.nodes[1].online = "1"
        /\ request[r].doc.nodes[2].online = "false"
        /\ FamilyNamed(resp[r].body, "pacemaker_node_online").samples
              = <<Sample(<<"A">>, 1), Sample(<<"B">>, 0)>>

(***************************************************************************)
(* Request isolation.                                                      *)
(***************************************************************************)
\* The answer to a request handled with nothing else going on.
Alone(q, omit, seed) ==
    LET d == q.doc
        s == collect_summary(d)
        n == collect_nodes(d)
        a == collect_attrs(d)
        b == build_resource_elements(d)
        w == [k \in DOMAIN b.elements |-> walk_resource(b.elements[k], a.all_nodes, omit, seed)]
    IN  CASE q.path = "/" ->
               IF q.html = "failed" THEN send_error(500, "CalledProcessError")
               ELSE IF q.html = "no blank line" THEN send_error(500, "IndexError")
               ELSE send_ok("html", <<>>)
          [] q.path = "/xml" ->
               IF d.xml = "failed" THEN send_error(500, "CalledProcessError")
               ELSE send_ok("xml", <<>>)
          [] q.path = "/metrics" ->
               IF d.xml = "failed" THEN send_error(500, "CalledProcessError")
               ELSE IF d.xml = "garbage" THEN send_error(500, "ParseError")
               ELSE IF ~s.ok THEN send_error(500, s.err)
               ELSE IF ~n.ok THEN send_error(500, n.err)
               ELSE IF ~a.ok THEN send_error(500, a.err)
               ELSE IF ~b.ok THEN send_error(500, b.err)
               ELSE IF FirstBad(w) <= Len(w) THEN send_error(500, w[FirstBad(w)].err)
               ELSE send_ok("metrics",
                       s.out \o n.out \o a.out
                         \o [j \in DOMAIN resource_metrics |->
                               Family(resource_metrics[j].metric,
                                      [k \in DOMAIN w |-> w[k].rows[j]])]
                         \o <<Family("pacemaker_resource_node",
                                     Concat([k \in DOMAIN w |-> w[k].placement]))>>)
          [] OTHER -> send_error(404, "")

\* C9.  Whatever the other thread does meanwhile, a request gets the answer it
\* would get alone on its own document; a failed pipeline is answered 500 with
\* the error text, and a free thread can still accept a request.
C9_RequestIsolation ==
    [][\A r \in Threads :
         /\ pc[r] # "done" /\ pc'[r] = "done" =>
               /\ resp'[r] = Alone(request'[r], omit_other_nodes, hashseed)
               /\ raised[r] # "" => resp'[r] = send_error(500, raised[r])
               /\ resp'[r].status = 500 => resp'[r].text # ""
         /\ pc[r] = "idle" => ENABLED Accept(r, DocsSmall)]_vars

\* One request has failed while the other is in the middle of its walk.
C9_Witness ==
    /\ pc[1] = "done" /\ resp[1].status = 500
    /\ pc[2] = "walk" /\ walked[2] = 1 /\ Len(resource_elements[2]) = 2

====
